---- MODULE Spec2Model ----
(***************************************************************************)
(* Model of the BCA mutation checker's check orchestration: the Scheduler  *)
(* (timer loop, overlap guard, one check cycle), the rotation pools, the   *)
(* ErrorHandler and the WebhookClient retry loop.                          *)
(*                                                                         *)
(* JavaScript runs each synchronous stretch of code to completion, so one  *)
(* action is one such stretch: from a call or the resumption of an await   *)
(* up to the next await.  Every awaited collaborator call is a separate    *)
(* step whose outcome (value or rejection) is chosen nondeterministically. *)
(***************************************************************************)
EXTENDS Integers, Sequences, FiniteSets, TLC

\* ------------------------------------------------------------------ bounds
\* Number of independent manual callers of executeCheck().
NumCallers == 2

\* Number of timer handles that may be live (pending or in their callback).
MaxTimers == 2

\* Longest time since the start of a cycle that the clock tells apart.
MaxClock == 2

\* Largest number of raw records one scrape() returns.
MaxRaw == 2

\* ----------------------------------------------------- text of the failures
\* Strings are sequences of one-character strings, so that toLowerCase() and
\* includes() are computed as the code computes them.
UpperToLower ==
  [c \in {"A","B","C","D","E","F","G","H","I","J","K","L","M","N","O","P","Q","R","S","T","U","V","W","X","Y","Z"} |->
    CASE c = "A" -> "a"
      [] c = "B" -> "b"
      [] c = "C" -> "c"
      [] c = "D" -> "d"
      [] c = "E" -> "e"
      [] c = "F" -> "f"
      [] c = "G" -> "g"
      [] c = "H" -> "h"
      [] c = "I" -> "i"
      [] c = "J" -> "j"
      [] c = "K" -> "k"
      [] c = "L" -> "l"
      [] c = "M" -> "m"
      [] c = "N" -> "n"
      [] c = "O" -> "o"
      [] c = "P" -> "p"
      [] c = "Q" -> "q"
      [] c = "R" -> "r"
      [] c = "S" -> "s"
      [] c = "T" -> "t"
      [] c = "U" -> "u"
      [] c = "V" -> "v"
      [] c = "W" -> "w"
      [] c = "X" -> "x"
      [] c = "Y" -> "y"
      [] c = "Z" -> "z"]

toLowerCase(s) ==
  [i \in 1..Len(s) |-> IF s[i] \in DOMAIN UpperToLower THEN UpperToLower[s[i]] ELSE s[i]]

Includes(s, m) ==
  \E i \in 1..(Len(s) - Len(m) + 1) : SubSeq(s, i, i + Len(m) - 1) = m

\* The failures the collaborators raise in the model: name and message of the Error.
ErrorName == <<"E","r","r","o","r">>

ErrorMessage ==
  [ E_LOGIN |-> <<"L","o","g","i","n"," ","f","a","i","l","e","d",":"," ","u","n","e","x","p","e","c","t","e","d"," ","p","a","g","e"," ","a","f","t","e","r"," ","l","o","g","i","n">>,
    E_TIMEOUT |-> <<"p","a","g","e",".","g","o","t","o",":"," ","T","i","m","e","o","u","t"," ","3","0","0","0","0","m","s"," ","e","x","c","e","e","d","e","d",".">>,
    E_NET |-> <<"p","a","g","e",".","g","o","t","o",":"," ","n","e","t",":",":","E","R","R","_","N","E","T","W","O","R","K","_","C","H","A","N","G","E","D">>,
    E_BROWSER |-> <<"U","n","s","u","p","p","o","r","t","e","d"," ","b","r","o","w","s","e","r"," ","t","y","p","e",":"," ","w","e","b","k","i","t">>,
    E_AUTHNET |-> <<"A","u","t","h","e","n","t","i","c","a","t","i","o","n"," ","f","a","i","l","e","d",":"," ","n","e","t","w","o","r","k"," ","e","r","r","o","r">>,
    E_CONFIG |-> <<"I","n","v","a","l","i","d"," ","c","o","n","f","i","g">>,
    E_WEBHOOK |-> <<"W","e","b","h","o","o","k"," ","d","e","l","i","v","e","r","y"," ","f","a","i","l","e","d"," ","a","f","t","e","r"," ","a","l","l"," ","a","t","t","e","m","p","t","s">>,
    E_INPROGRESS |-> <<"C","h","e","c","k"," ","a","l","r","e","a","d","y"," ","i","n"," ","p","r","o","g","r","e","s","s">> ]

\* "Check already in progress": built by executeCheck, never raised by a collaborator.
AlreadyInProgress == "E_INPROGRESS"

\* The failure sendWithRetry raises once its attempts are exhausted.
WebhookFailure == "E_WEBHOOK"

\* What createSession, login, navigateToMutationPage and scrape may raise.
StepErrors == {"E_LOGIN", "E_TIMEOUT", "E_NET", "E_BROWSER", "E_AUTHNET", "E_CONFIG"}

\* The Error object of a failure: `new Error(message)`, whose name is "Error".
ErrorOf(id) == [name |-> ErrorName, message |-> ErrorMessage[id]]

\* ------------------------------------------------------------ ErrorHandler
\* A bug to test the claims against: the Network markers are tested before the
\* Authentication markers.
categorizeNetworkFirst(error) ==
  LET message == toLowerCase(error.message)
  IN  IF \/ Includes(message, <<"n","e","t","w","o","r","k">>)
         \/ Includes(message, <<"t","i","m","e","o","u","t">>)
         \/ Includes(message, <<"d","n","s">>)
         \/ Includes(message, <<"p","r","o","x","y">>)
        THEN "network"
      ELSE IF \/ Includes(message, <<"a","u","t","h","e","n","t","i","c","a","t","i","o","n">>)
              \/ Includes(message, <<"l","o","g","i","n">>)
              \/ Includes(message, <<"c","r","e","d","e","n","t","i","a","l">>)
              \/ Includes(message, <<"u","n","a","u","t","h","o","r","i","z","e","d">>)
              \/ Includes(message, <<"4","0","1">>)
        THEN "authentication"
      ELSE "browser"

categorizeError(error) ==
  LET message == toLowerCase(error.message)
      name == toLowerCase(error.name)
  IN
  IF \/ Includes(message, <<"a","u","t","h","e","n","t","i","c","a","t","i","o","n">>)
        \/ Includes(message, <<"l","o","g","i","n">>)
        \/ Includes(message, <<"c","r","e","d","e","n","t","i","a","l">>)
        \/ Includes(message, <<"u","n","a","u","t","h","o","r","i","z","e","d">>)
        \/ Includes(message, <<"4","0","1">>)
    THEN "authentication"
  ELSE IF \/ Includes(message, <<"n","e","t","w","o","r","k">>)
        \/ Includes(message, <<"t","i","m","e","o","u","t">>)
        \/ Includes(message, <<"e","c","o","n","n","r","e","f","u","s","e","d">>)
        \/ Includes(message, <<"e","n","o","t","f","o","u","n","d">>)
        \/ Includes(message, <<"d","n","s">>)
        \/ Includes(message, <<"p","r","o","x","y">>)
        \/ Includes(name, <<"n","e","t","w","o","r","k","e","r","r","o","r">>)
    THEN "network"
  ELSE IF \/ Includes(message, <<"b","r","o","w","s","e","r">>)
        \/ Includes(message, <<"p","a","g","e">>)
        \/ Includes(message, <<"n","a","v","i","g","a","t","i","o","n">>)
        \/ Includes(message, <<"e","l","e","m","e","n","t"," ","n","o","t"," ","f","o","u","n","d">>)
        \/ Includes(message, <<"s","e","l","e","c","t","o","r">>)
        \/ Includes(message, <<"p","l","a","y","w","r","i","g","h","t">>)
    THEN "browser"
  ELSE IF \/ Includes(message, <<"p","a","r","s","e">>)
        \/ Includes(message, <<"i","n","v","a","l","i","d"," ","d","a","t","e">>)
        \/ Includes(message, <<"i","n","v","a","l","i","d"," ","a","m","o","u","n","t">>)
        \/ Includes(message, <<"i","n","v","a","l","i","d"," ","t","r","a","n","s","a","c","t","i","o","n"," ","t","y","p","e">>)
        \/ Includes(message, <<"m","i","s","s","i","n","g"," ","r","e","q","u","i","r","e","d"," ","f","i","e","l","d","s">>)
    THEN "parsing"
  ELSE IF \/ Includes(message, <<"w","e","b","h","o","o","k">>)
        \/ Includes(message, <<"h","t","t","p"," ","r","e","q","u","e","s","t"," ","f","a","i","l","e","d">>)
        \/ (Includes(message, <<"f","e","t","c","h">>) /\ Includes(message, <<"f","a","i","l","e","d">>))
    THEN "webhook"
  ELSE IF \/ Includes(message, <<"c","o","n","f","i","g">>)
        \/ Includes(message, <<"v","a","l","i","d","a","t","i","o","n">>)
        \/ Includes(message, <<"r","e","q","u","i","r","e","d"," ","f","i","e","l","d">>)
    THEN "config"
  ELSE "browser"

\* A bug to test the claims against: the attempt that reaches the limit still counts
\* as recoverable.
isRecoverableAtLimit(category, context) ==
  IF category = "config" THEN FALSE
  ELSE IF context.attempt > context.maxAttempts THEN FALSE
  ELSE TRUE

isRecoverable(category, context) ==
  IF category = "config" THEN FALSE
  ELSE IF context.attempt >= context.maxAttempts THEN FALSE
  ELSE TRUE

Min(a, b) == IF a < b THEN a ELSE b

\* A bug to test the claims against: every failure that is not recoverable ends the
\* process.
determineActionFatalWhenExhausted(category, context, recoverable) ==
  IF ~recoverable
    THEN [type |-> "fatal", exitCode |-> 1]
  ELSE CASE category = "authentication" -> [type |-> "retry", delay |-> 30000]
         [] category = "network" ->
              [type |-> "retry", delay |-> Min((2 ^ context.attempt) * 1000, 60000)]
         [] category = "browser" ->
              IF context.attempt < 3
                THEN [type |-> "fallback", alternative |-> "next-browser"]
                ELSE [type |-> "skip"]
         [] category = "parsing" -> [type |-> "skip"]
         [] category = "webhook" ->
              [type |-> "retry", delay |-> Min((2 ^ context.attempt) * 1000, 30000)]
         [] OTHER -> [type |-> "skip"]

\* A bug to test the claims against: the backoff of a Network failure has no ceiling.
determineActionUncapped(category, context, recoverable) ==
  IF ~recoverable
    THEN IF category = "config" THEN [type |-> "fatal", exitCode |-> 1]
         ELSE [type |-> "skip"]
  ELSE CASE category = "authentication" -> [type |-> "retry", delay |-> 30000]
         [] category = "network" ->
              [type |-> "retry", delay |-> (2 ^ context.attempt) * 1000]
         [] category = "browser" ->
              IF context.attempt < 3
                THEN [type |-> "fallback", alternative |-> "next-browser"]
                ELSE [type |-> "skip"]
         [] category = "parsing" -> [type |-> "skip"]
         [] category = "webhook" ->
              [type |-> "retry", delay |-> Min((2 ^ context.attempt) * 1000, 30000)]
         [] OTHER -> [type |-> "skip"]

\* A bug to test the claims against: a Browser failure falls back to the next browser
\* at every attempt.
determineActionAlwaysFallback(category, context, recoverable) ==
  IF ~recoverable
    THEN IF category = "config" THEN [type |-> "fatal", exitCode |-> 1]
         ELSE [type |-> "skip"]
  ELSE CASE category = "authentication" -> [type |-> "retry", delay |-> 30000]
         [] category = "network" ->
              [type |-> "retry", delay |-> Min((2 ^ context.attempt) * 1000, 60000)]
         [] category = "browser" -> [type |-> "fallback", alternative |-> "next-browser"]
         [] category = "parsing" -> [type |-> "skip"]
         [] category = "webhook" ->
              [type |-> "retry", delay |-> Min((2 ^ context.attempt) * 1000, 30000)]
         [] OTHER -> [type |-> "skip"]

determineAction(category, context, recoverable) ==
  IF ~recoverable
    THEN IF category = "config" THEN [type |-> "fatal", exitCode |-> 1]
         ELSE [type |-> "skip"]
  ELSE CASE category = "authentication" -> [type |-> "retry", delay |-> 30000]
         [] category = "network" ->
              [type |-> "retry", delay |-> Min((2 ^ context.attempt) * 1000, 60000)]
         [] category = "browser" ->
              IF context.attempt < 3
                THEN [type |-> "fallback", alternative |-> "next-browser"]
                ELSE [type |-> "skip"]
         [] category = "parsing" -> [type |-> "skip"]
         [] category = "webhook" ->
              [type |-> "retry", delay |-> Min((2 ^ context.attempt) * 1000, 30000)]
         [] OTHER -> [type |-> "skip"]

handleError(error, context) ==
  LET category == categorizeError(error)
      recoverable == isRecoverable(category, context)
  IN  determineAction(category, context, recoverable)

\* ---------------------------------------------------------- configuration
\* systemConfig.browsers: the BrowserPool's items.
Browsers == <<"chromium", "chrome">>

\* systemConfig.userAgents: no custom strings, so the default per browser type is used.
UserAgents == <<>>

\* DEFAULT_USER_AGENTS, by the marker that tells the strings apart.
DEFAULT_USER_AGENTS ==
  [chromium |-> <<"Chrome/120">>, chrome |-> <<"Chrome/120">>,
   edge |-> <<"Chrome/120 Edg/120">>, brave |-> <<"Chrome/120">>]

\* A list for systemConfig.proxy.servers: one route without and one with a username.
TwoServers ==
  << [server |-> <<"a",":","1">>, username |-> <<>>],
     [server |-> <<"b",":","2">>, username |-> <<"u">>] >>

\* Another: the route without a username alone.
OneServer == << [server |-> <<"a",":","1">>, username |-> <<>>] >>

\* config.interval of the Scheduler, in milliseconds.
Interval == 300000

\* An absent value (null or undefined) is the empty sequence, a present one <<v>>.
Null == <<>>

Some(v) == <<v>>

\* The configurations the Scheduler is constructed with: whether the proxy pool is
\* enabled, its servers, and systemConfig.webhook (absent, or its retryAttempts).
Configs ==
  { [proxyEnabled |-> FALSE, servers |-> TwoServers, webhook |-> Null],
    [proxyEnabled |-> TRUE, servers |-> TwoServers,
     webhook |-> Some([retryAttempts |-> Null])],
    [proxyEnabled |-> TRUE, servers |-> OneServer, webhook |-> Null] }

\* ---------------------------------------------------------- rotation pools
getProxyKey(proxy) == proxy.server \o <<":">> \o proxy.username

\* A bug to test the claims against: the scan returns the item at the cursor
\* without looking it up in the excluded set.
NextProxyScanUnfiltered(proxies, currentIndex, failed, attempts) ==
  [proxy |-> Some(proxies[currentIndex + 1]),
   currentIndex |-> (currentIndex + 1) % Len(proxies)]

\* A bug to test the claims against: the cursor is left on the item returned, not
\* past it.
NextProxyScanCursorOnItem(proxies, currentIndex, failed, attempts) ==
  LET free == {k \in 0..(Len(proxies) - 1) :
                 getProxyKey(proxies[((currentIndex + k) % Len(proxies)) + 1]) \notin failed}
      first == CHOOSE k \in free : \A l \in free : k <= l
  IN  IF free = {} THEN [proxy |-> Null, currentIndex |-> currentIndex]
      ELSE [proxy |-> Some(proxies[((currentIndex + first) % Len(proxies)) + 1]),
            currentIndex |-> (currentIndex + first) % Len(proxies)]

RECURSIVE NextProxyScan(_, _, _, _)
NextProxyScan(proxies, currentIndex, failed, attempts) ==
  IF attempts >= Len(proxies)
    THEN [proxy |-> Null, currentIndex |-> currentIndex]
  ELSE LET proxy == proxies[currentIndex + 1]
           next == (currentIndex + 1) % Len(proxies)
       IN  IF getProxyKey(proxy) \notin failed
             THEN [proxy |-> Some(proxy), currentIndex |-> next]
             ELSE NextProxyScan(proxies, next, failed, attempts + 1)

\* A bug to test the claims against: with every item excluded the rotator falls
\* back to the item at the cursor.
getNextProxyDegrading(proxies, currentIndex, failed) ==
  IF Len(proxies) = 0
    THEN [proxy |-> Null, currentIndex |-> currentIndex]
  ELSE IF \A i \in 1..Len(proxies) : getProxyKey(proxies[i]) \in failed
    THEN [proxy |-> Some(proxies[currentIndex + 1]),
          currentIndex |-> (currentIndex + 1) % Len(proxies)]
  ELSE NextProxyScan(proxies, currentIndex, failed, 0)

\* A bug to test the claims against: an exhausted pool rewinds its cursor.
getNextProxyRewinding(proxies, currentIndex, failed) ==
  IF Len(proxies) = 0
    THEN [proxy |-> Null, currentIndex |-> 0]
  ELSE IF \A i \in 1..Len(proxies) : getProxyKey(proxies[i]) \in failed
    THEN [proxy |-> Null, currentIndex |-> 0]
  ELSE NextProxyScan(proxies, currentIndex, failed, 0)

\* ProxyRotator.getNextProxy: the proxy returned and the cursor it leaves.
getNextProxy(proxies, currentIndex, failed) ==
  IF Len(proxies) = 0
    THEN [proxy |-> Null, currentIndex |-> currentIndex]
  ELSE IF \A i \in 1..Len(proxies) : getProxyKey(proxies[i]) \in failed
    THEN [proxy |-> Null, currentIndex |-> currentIndex]
  ELSE NextProxyScan(proxies, currentIndex, failed, 0)

\* A bug to test the claims against: marking a proxy forgets the ones marked before.
markProxyFailedAlone(failed, proxy) == {getProxyKey(proxy)}

\* ProxyRotator.markProxyFailed: the excluded set it leaves.
markProxyFailed(failed, proxy) == failed \cup {getProxyKey(proxy)}

\* ProxyRotator.resetFailures: the excluded set it leaves.
resetFailures(failed) == {}

\* reset() of each pool: the cursor it leaves.
reset(currentIndex) == 0

\* A bug to test the claims against: the cursor is not advanced.
getNextBrowserStuck(browsers, currentIndex) ==
  [browser |-> browsers[currentIndex + 1], currentIndex |-> currentIndex]

\* BrowserPool.getNextBrowser: the browser returned and the cursor it leaves.
getNextBrowser(browsers, currentIndex) ==
  [browser |-> browsers[currentIndex + 1],
   currentIndex |-> (currentIndex + 1) % Len(browsers)]

getDefaultUserAgent(browserType) ==
  IF browserType \notin DOMAIN DEFAULT_USER_AGENTS
       \/ Len(DEFAULT_USER_AGENTS[browserType]) = 0
    THEN DEFAULT_USER_AGENTS.chromium[1]
    ELSE DEFAULT_USER_AGENTS[browserType][1]

\* A bug to test the claims against: the cursor runs on past the end of the list.
getNextUserAgentUnwrapped(userAgents, currentIndex, browserType) ==
  IF Len(userAgents) > 0
    THEN [userAgent |-> userAgents[currentIndex + 1], currentIndex |-> currentIndex + 1]
    ELSE [userAgent |-> getDefaultUserAgent(browserType), currentIndex |-> currentIndex]

\* UserAgentRotator.getNextUserAgent: the string returned and the cursor it leaves.
getNextUserAgent(userAgents, currentIndex, browserType) ==
  IF Len(userAgents) > 0
    THEN [userAgent |-> userAgents[currentIndex + 1],
          currentIndex |-> (currentIndex + 1) % Len(userAgents)]
    ELSE [userAgent |-> getDefaultUserAgent(browserType), currentIndex |-> currentIndex]

\* ------------------------------------------------------------------- state
\* Timer handles are 1..MaxTimers (0 is a null timerId); each timer's callback and
\* each manual caller is a process that may have one executeCheck() call in flight.
Timers == 1..MaxTimers

Callers == (MaxTimers + 1)..(MaxTimers + NumCallers)

Procs == Timers \cup Callers

VARIABLES
  config,          \* the configuration the Scheduler was constructed with
  timerId,         \* Scheduler.timerId: 0, or the handle last returned by setTimeout
  checkInProgress, \* Scheduler.checkInProgress
  stopped,         \* Scheduler.stopped
  browserIndex,    \* BrowserPool.currentIndex
  userAgentIndex,  \* UserAgentRotator.currentIndex
  proxyIndex,      \* ProxyRotator.currentIndex
  failedProxies,   \* ProxyRotator.failedProxies
  pc,              \* where each process stands
  frame,           \* the locals of each process's executeCheck/performCheck call
  result,          \* the CheckResult a process's call resolved to, until it is read
  cycleLog,        \* what a process's cycle did, in order, until its result is read
  timerDelay,      \* the delay each pending timer was armed with
  clock,           \* new Date(), as the time since the latest cycle began
  subject,         \* unit specifications: the arguments or the pool under test
  outcome,         \* unit specifications: what the last call returned or raised
  calls,           \* unit specifications: selection calls since construction or reset()
  clean,           \* unit specifications: no selection call yet met an excluded item
  marked           \* unit specifications: identities marked since the last resetFailures()

pools == <<browserIndex, userAgentIndex, proxyIndex, failedProxies>>

sched == <<timerId, stopped, timerDelay>>

\* What the unit specifications observe; the Scheduler never assigns it.
unit == <<subject, outcome, calls, clean, marked>>

\* What no method of the Scheduler assigns.
fixed == <<config, unit>>

vars == <<config, timerId, checkInProgress, stopped, browserIndex, userAgentIndex,
          proxyIndex, failedProxies, pc, frame, result, cycleLog, timerDelay, clock,
          subject, outcome, calls, clean, marked>>

\* The awaits of one cycle, from the first (inside createSession) to the last.
BodyPcs ==
  {"launchBrowser", "newContext", "newPage", "login", "navigate", "scrape",
   "sendRequest", "sleep", "logout", "closeSession"}

\* The awaits whose rejection leaves the try block of performCheck.
FailingPcs == {"launchBrowser", "newContext", "newPage", "login", "navigate", "scrape"}

EmptyFrame ==
  [startTime |-> 0, browserType |-> "", userAgent |-> "", proxy |-> Null,
   session |-> Null, mutations |-> <<>>, attempt |-> 0, maxAttempts |-> 0,
   error |-> "none"]

\* No call under test has been made.
Untested ==
  /\ outcome = Null
  /\ calls = 0
  /\ clean = TRUE
  /\ marked = {}

\* The fields of a Scheduler, its pools and its callers right after construction.
Constructed ==
  /\ timerId = 0
  /\ checkInProgress = FALSE
  /\ stopped = FALSE
  /\ browserIndex = 0
  /\ userAgentIndex = 0
  /\ proxyIndex = 0
  /\ failedProxies = {}
  /\ pc = [p \in Procs |-> "idle"]
  /\ frame = [p \in Procs |-> EmptyFrame]
  /\ result = [p \in Procs |-> Null]
  /\ cycleLog = [p \in Procs |-> <<>>]
  /\ timerDelay = [t \in Timers |-> 0]
  /\ clock = 0

Init ==
  /\ config \in Configs
  /\ Constructed
  /\ subject = Null
  /\ Untested

\* systemConfig.proxy.servers
ProxyServers == config.servers

\* Scheduler.proxyRotator is set only when the proxy pool is enabled and not empty.
proxyRotator == config.proxyEnabled /\ Len(ProxyServers) > 0

\* Scheduler.webhookClient is set only when a webhook is configured.
webhookClient == config.webhook /= Null

isRunning == timerId /= 0 \/ checkInProgress

\* A process is in a cycle from passing the guard of executeCheck until it returns.
InCycle(p) == pc[p] \in BodyPcs

\* executeCheck() has resolved and the continuation of its awaiter is queued. The
\* continuation is a microtask: it runs before any timer or I/O callback, and so
\* before any other code calls into the Scheduler.
AnyReturned == \E p \in Procs : pc[p] = "returned"

\* Time passes while a call is awaited.
Later == IF clock < MaxClock THEN clock + 1 ELSE clock

\* The clock measures cycles only: once a cycle's result has been read and no cycle
\* is in progress it rests at 0 until the next cycle takes its start time.
Rested == IF checkInProgress THEN clock ELSE 0

\* ---------------------------------------------------------------- executeCheck
\* A bug to test the claims against: executeCheck without its guard.
GuardOmitted == FALSE

\* The guard at the entry of executeCheck.
\* A bug to test the claims against: the guard rejects a call only while a timer is
\* also recorded.
GuardNeedsTimer == checkInProgress /\ timerId /= 0

GuardRejects == checkInProgress

\* A bug to test the claims against: a skipped check reported as a success.
SkipReportedAsSuccess(now) ==
  [success |-> TRUE, timestamp |-> now, error |-> AlreadyInProgress]

\* The result executeCheck returns when the guard rejects the call.
RejectedResult(now) ==
  [success |-> FALSE, timestamp |-> now, error |-> AlreadyInProgress]

\* The result of the try block and of the catch block of executeCheck.
SuccessResult(startTime) ==
  [success |-> TRUE, timestamp |-> startTime, error |-> "none"]

\* A bug to test the claims against: the failed result stamped when it is built.
FailedResultStampedLate(startTime, now, error) ==
  [success |-> FALSE, timestamp |-> now, error |-> error]

FailedResult(startTime, now, error) ==
  [success |-> FALSE, timestamp |-> startTime, error |-> error]

\* A bug to test the claims against: the flag cleared at the end of the try block only.
FlagClearedInTryOnly(success) == ~success

\* The finally block of executeCheck: the flag it leaves, given the outcome.
FlagAfterCheck(success) == FALSE

\* executeCheck returns res to process p after its cycle.
Return(p, res) ==
  /\ pc' = [pc EXCEPT ![p] = "returned"]
  /\ result' = [result EXCEPT ![p] = Some(res)]
  /\ frame' = [frame EXCEPT ![p] = EmptyFrame]
  /\ checkInProgress' = FlagAfterCheck(res.success)
  /\ clock' = Later

\* A bug to test the claims against: every cycle takes the first browser.
SelectionsFirstBrowser ==
  LET ua == getNextUserAgent(UserAgents, userAgentIndex, Browsers[1])
      px == IF proxyRotator
              THEN getNextProxy(ProxyServers, proxyIndex, failedProxies)
              ELSE [proxy |-> Null, currentIndex |-> proxyIndex]
  IN  [browserType |-> Browsers[1], browserIndex |-> browserIndex,
       userAgent |-> ua.userAgent, userAgentIndex |-> ua.currentIndex,
       proxy |-> px.proxy, proxyIndex |-> px.currentIndex]

\* The selections performCheck draws before its first await.
Selections ==
  LET b == getNextBrowser(Browsers, browserIndex)
      ua == getNextUserAgent(UserAgents, userAgentIndex, b.browser)
      px == IF proxyRotator
              THEN getNextProxy(ProxyServers, proxyIndex, failedProxies)
              ELSE [proxy |-> Null, currentIndex |-> proxyIndex]
  IN  [browserType |-> b.browser, browserIndex |-> b.currentIndex,
       userAgent |-> ua.userAgent, userAgentIndex |-> ua.currentIndex,
       proxy |-> px.proxy, proxyIndex |-> px.currentIndex]

\* A bug to test the claims against: the selections are drawn before the guard is
\* tested, so a rejected call moves the cursors too.
ExecuteCheckSelectingFirst(p) ==
  LET s == Selections
  IN  /\ browserIndex' = s.browserIndex
      /\ userAgentIndex' = s.userAgentIndex
      /\ proxyIndex' = s.proxyIndex
      /\ IF GuardRejects
           THEN /\ pc' = [pc EXCEPT ![p] = "returned"]
                /\ result' = [result EXCEPT ![p] = Some(RejectedResult(clock))]
                /\ UNCHANGED <<checkInProgress, failedProxies, frame, cycleLog, clock>>
           ELSE /\ checkInProgress' = TRUE
                /\ clock' = 0
                /\ frame' = [frame EXCEPT ![p] =
                               [EmptyFrame EXCEPT !.startTime = 0,
                                                  !.browserType = s.browserType,
                                                  !.userAgent = s.userAgent,
                                                  !.proxy = s.proxy]]
                /\ pc' = [pc EXCEPT ![p] = "launchBrowser"]
                /\ cycleLog' = [cycleLog EXCEPT ![p] = <<"select", "createSession">>]
                /\ UNCHANGED <<failedProxies, result>>

\* The synchronous start of executeCheck() by process p: the guard, the flag, and
\* performCheck up to the first await of createSession.
ExecuteCheck(p) ==
  IF GuardRejects
    THEN /\ pc' = [pc EXCEPT ![p] = "returned"]
         /\ result' = [result EXCEPT ![p] = Some(RejectedResult(clock))]
         /\ UNCHANGED <<checkInProgress, pools, frame, cycleLog, clock>>
    ELSE LET s == Selections
         IN  /\ checkInProgress' = TRUE
             /\ clock' = 0
             /\ browserIndex' = s.browserIndex
             /\ userAgentIndex' = s.userAgentIndex
             /\ proxyIndex' = s.proxyIndex
             /\ frame' = [frame EXCEPT ![p] =
                            [EmptyFrame EXCEPT !.startTime = 0,
                                               !.browserType = s.browserType,
                                               !.userAgent = s.userAgent,
                                               !.proxy = s.proxy]]
             /\ pc' = [pc EXCEPT ![p] = "launchBrowser"]
             /\ cycleLog' = [cycleLog EXCEPT ![p] = <<"select", "createSession">>]
             /\ UNCHANGED <<failedProxies, result>>

\* A manual executeCheck() call.
Call(c) ==
  /\ pc[c] = "idle"
  /\ ~AnyReturned
  /\ ExecuteCheck(c)
  /\ UNCHANGED <<fixed, sched>>

\* The caller's continuation reads the result.
Observe(c) ==
  /\ pc[c] = "returned"
  /\ pc' = [pc EXCEPT ![c] = "idle"]
  /\ result' = [result EXCEPT ![c] = Null]
  /\ cycleLog' = [cycleLog EXCEPT ![c] = <<>>]
  /\ clock' = Rested
  /\ UNCHANGED <<fixed, sched, checkInProgress, pools, frame>>

\* ---------------------------------------------------------------- performCheck
Log(p, events) == cycleLog' = [cycleLog EXCEPT ![p] = cycleLog[p] \o events]

\* An awaited call of process p at `from` settles and p runs on to its next await.
Resume(p, from) ==
  /\ pc[p] = from
  /\ ~AnyReturned

\* The raw records scrape() may return: each parses or fails to parse.
RawBatches == UNION { [1..n -> BOOLEAN] : n \in 0..MaxRaw }

\* DataParser.parseAll: the records that parse, in input order (a record is its
\* position in the batch).
RECURSIVE parseAllFrom(_, _)
parseAllFrom(raw, i) ==
  IF i > Len(raw) THEN <<>>
  ELSE (IF raw[i] THEN <<i>> ELSE <<>>) \o parseAllFrom(raw, i + 1)

\* A bug to test the claims against: a record that fails to parse is kept.
parseAllKeepsFailed(raw) == [i \in 1..Len(raw) |-> i]

parseAll(raw) == parseAllFrom(raw, 1)

\* `value || fallback` on an optional number: 0 and undefined are falsy.
OrDefault(value, fallback) ==
  IF value = Null \/ value[1] = 0 THEN fallback ELSE value[1]

\* Whether the catch block of performCheck marks the session's proxy failed.
MarksProxy(error, session) ==
  /\ proxyRotator
  /\ session /= Null
  /\ session[1].proxy /= Null
  /\ handleError(ErrorOf(error), [attempt |-> 1, maxAttempts |-> 3]).type = "retry"
  /\ Includes(toLowerCase(ErrorOf(error).message), <<"n","e","t","w","o","r","k">>)

\* A bug to test the claims against: when the handler prescribes a retry or a
\* fallback, performCheck runs its body once more.
PropagateRetrying(p, error, log) ==
  LET session == frame[p].session
      action == handleError(ErrorOf(error), [attempt |-> 1, maxAttempts |-> 3])
      handled == log \o <<"raised", error, "handleError">>
  IN  /\ failedProxies' = failedProxies
      /\ IF action.type \in {"retry", "fallback"} /\ (\A i \in 1..Len(log) : log[i] /= "handleError")
           THEN /\ pc' = [pc EXCEPT ![p] = "launchBrowser"]
                /\ frame' = [frame EXCEPT ![p].session = Null]
                /\ cycleLog' = [cycleLog EXCEPT ![p] = handled \o <<"select", "createSession">>]
                /\ clock' = Later
                /\ UNCHANGED <<result, checkInProgress>>
           ELSE IF session /= Null
             THEN /\ pc' = [pc EXCEPT ![p] = "closeSession"]
                  /\ frame' = [frame EXCEPT ![p].error = error]
                  /\ cycleLog' = [cycleLog EXCEPT ![p] = handled \o <<"closeSession">>]
                  /\ clock' = Later
                  /\ UNCHANGED <<result, checkInProgress>>
             ELSE /\ Return(p, FailedResult(frame[p].startTime, Later, error))
                  /\ cycleLog' = [cycleLog EXCEPT ![p] = handled]

\* The catch and finally blocks of performCheck for a failure raised in its try
\* block with the cycle's log at log, and, when there is no session to close, the
\* return of executeCheck.
PropagateFrom(p, error, log) ==
  LET session == frame[p].session
      mark == MarksProxy(error, session)
      handled == log \o <<"raised", error, "handleError">>
                   \o (IF mark THEN <<"markProxyFailed">> ELSE <<>>)
  IN  /\ failedProxies' =
           IF mark
             THEN markProxyFailed(failedProxies,
                                  [server |-> session[1].proxy[1], username |-> <<>>])
             ELSE failedProxies
      /\ IF session /= Null
           THEN /\ pc' = [pc EXCEPT ![p] = "closeSession"]
                /\ frame' = [frame EXCEPT ![p].error = error,
                                          ![p].mutations = <<>>,
                                          ![p].attempt = 0,
                                          ![p].maxAttempts = 0]
                /\ cycleLog' = [cycleLog EXCEPT ![p] = handled \o <<"closeSession">>]
                /\ clock' = Later
                /\ UNCHANGED <<result, checkInProgress>>
           ELSE /\ Return(p, FailedResult(frame[p].startTime, Later, error))
                /\ cycleLog' = [cycleLog EXCEPT ![p] = handled]

Propagate(p, error) == PropagateFrom(p, error, cycleLog[p])

\* A bug to test the claims against: the failure of send is raised out of performCheck.
SendFailureRethrown(p) == PropagateFrom(p, WebhookFailure, cycleLog[p] \o <<"sendThrows">>)

\* The catch block around webhookClient.send: the failure is handled, not re-raised,
\* and performCheck goes on to logout.
AfterSendThrows(p) ==
  /\ pc' = [pc EXCEPT ![p] = "logout"]
  /\ frame' = [frame EXCEPT ![p].mutations = <<>>, ![p].attempt = 0,
                            ![p].maxAttempts = 0]
  /\ Log(p, <<"sendThrows", "handleWebhookError", "logout">>)
  /\ clock' = Later
  /\ UNCHANGED <<failedProxies, result, checkInProgress>>

\* createSession: chromium.launch() resolves.
LaunchBrowserOk(p) ==
  /\ Resume(p, "launchBrowser")
  /\ pc' = [pc EXCEPT ![p] = "newContext"]
  /\ Log(p, <<"browserLaunched">>)
  /\ clock' = Later
  /\ UNCHANGED <<fixed, sched, checkInProgress, pools, frame, result>>

\* createSession: browser.newContext() resolves.
NewContextOk(p) ==
  /\ Resume(p, "newContext")
  /\ pc' = [pc EXCEPT ![p] = "newPage"]
  /\ clock' = Later
  /\ UNCHANGED <<fixed, sched, checkInProgress, pools, frame, result, cycleLog>>

\* createSession: context.newPage() resolves, the session is returned and login called.
NewPageOk(p) ==
  /\ Resume(p, "newPage")
  /\ frame' = [frame EXCEPT ![p].session =
                 Some([browserType |-> frame[p].browserType,
                       userAgent |-> frame[p].userAgent,
                       proxy |-> IF frame[p].proxy = Null THEN Null
                                 ELSE Some(frame[p].proxy[1].server)])]
  /\ pc' = [pc EXCEPT ![p] = "login"]
  /\ Log(p, <<"sessionCreated", "login">>)
  /\ clock' = Later
  /\ UNCHANGED <<fixed, sched, checkInProgress, pools, result>>

\* login resolves; navigateToMutationPage is called.
LoginOk(p) ==
  /\ Resume(p, "login")
  /\ pc' = [pc EXCEPT ![p] = "navigate"]
  /\ Log(p, <<"navigate">>)
  /\ clock' = Later
  /\ UNCHANGED <<fixed, sched, checkInProgress, pools, frame, result>>

\* navigateToMutationPage resolves; scrape is called.
NavigateOk(p) ==
  /\ Resume(p, "navigate")
  /\ pc' = [pc EXCEPT ![p] = "scrape"]
  /\ Log(p, <<"scrape">>)
  /\ clock' = Later
  /\ UNCHANGED <<fixed, sched, checkInProgress, pools, frame, result>>

\* scrape resolves with raw; parseAll runs; then send (and its first request), or logout.
ScrapeOk(p, raw) ==
  LET mutations == parseAll(raw)
      maxAttempts == OrDefault(config.webhook[1].retryAttempts, 3)
  IN  /\ Resume(p, "scrape")
      /\ IF webhookClient /\ Len(mutations) > 0
           THEN IF 1 <= maxAttempts
                  THEN /\ frame' = [frame EXCEPT ![p].mutations = mutations,
                                                 ![p].attempt = 1,
                                                 ![p].maxAttempts = maxAttempts]
                       /\ pc' = [pc EXCEPT ![p] = "sendRequest"]
                       /\ Log(p, <<"parse", "send", "sendRequest">>)
                       /\ clock' = Later
                       /\ UNCHANGED <<failedProxies, result, checkInProgress>>
                  ELSE AfterSendThrows(p)
           ELSE /\ pc' = [pc EXCEPT ![p] = "logout"]
                /\ Log(p, <<"parse", "logout">>)
                /\ clock' = Later
                /\ UNCHANGED <<failedProxies, frame, result, checkInProgress>>
      /\ UNCHANGED <<fixed, sched, browserIndex, userAgentIndex, proxyIndex>>

\* sendRequest: fetch resolves with a 2xx status; send returns and logout is called.
SendRequestOk(p) ==
  /\ Resume(p, "sendRequest")
  /\ pc' = [pc EXCEPT ![p] = "logout"]
  /\ frame' = [frame EXCEPT ![p].mutations = <<>>, ![p].attempt = 0,
                            ![p].maxAttempts = 0]
  /\ Log(p, <<"logout">>)
  /\ clock' = Later
  /\ UNCHANGED <<fixed, sched, checkInProgress, pools, result>>

\* sendRequest: fetch rejects or resolves with a status outside 2xx. sendWithRetry
\* sleeps before the next attempt, or raises after the last one.
SendRequestFails(p) ==
  /\ Resume(p, "sendRequest")
  /\ IF frame[p].attempt < frame[p].maxAttempts
       THEN /\ pc' = [pc EXCEPT ![p] = "sleep"]
            /\ Log(p, <<"sleep">>)
            /\ clock' = Later
            /\ UNCHANGED <<failedProxies, frame, result, checkInProgress>>
       ELSE AfterSendThrows(p)
  /\ UNCHANGED <<fixed, sched, browserIndex, userAgentIndex, proxyIndex>>

\* A bug to test the claims against: after each sleep the retry loop starts over.
SleepDoneStartingOver(p) ==
  /\ Resume(p, "sleep")
  /\ frame' = [frame EXCEPT ![p].attempt = 1]
  /\ pc' = [pc EXCEPT ![p] = "sendRequest"]
  /\ cycleLog' = [cycleLog EXCEPT ![p] = SubSeq(cycleLog[p], 1, Len(cycleLog[p]) - 1)]
  /\ clock' = Later
  /\ UNCHANGED <<fixed, sched, checkInProgress, pools, result>>

\* The backoff sleep of sendWithRetry ends; the next attempt is made.
SleepDone(p) ==
  /\ Resume(p, "sleep")
  /\ frame' = [frame EXCEPT ![p].attempt = frame[p].attempt + 1]
  /\ pc' = [pc EXCEPT ![p] = "sendRequest"]
  /\ Log(p, <<"sendRequest">>)
  /\ clock' = Later
  /\ UNCHANGED <<fixed, sched, checkInProgress, pools, result>>

\* logout returns (it swallows its own failure); the finally block calls closeSession.
LogoutDone(p) ==
  /\ Resume(p, "logout")
  /\ pc' = [pc EXCEPT ![p] = "closeSession"]
  /\ Log(p, <<"closeSession">>)
  /\ clock' = Later
  /\ UNCHANGED <<fixed, sched, checkInProgress, pools, frame, result>>

\* closeSession returns (it swallows its own failures); performCheck returns or
\* re-raises the failure it caught, and executeCheck returns its result.
CloseSessionDone(p) ==
  /\ Resume(p, "closeSession")
  /\ IF frame[p].error = "none"
       THEN Return(p, SuccessResult(frame[p].startTime))
       ELSE Return(p, FailedResult(frame[p].startTime, Later, frame[p].error))
  /\ UNCHANGED <<fixed, sched, pools, cycleLog>>

\* An awaited call in the try block of performCheck rejects with error.
Fail(p, error) ==
  /\ pc[p] \in FailingPcs
  /\ ~AnyReturned
  /\ Propagate(p, error)
  /\ UNCHANGED <<fixed, sched, browserIndex, userAgentIndex, proxyIndex>>

\* ------------------------------------------------------- start, stop, timers
\* setTimeout: the handle it returns, the lowest one not live (self is the handle of
\* the callback that is arming it, 0 outside a callback).
NewTimer(self) ==
  LET free == {t \in Timers : pc[t] = "idle" \/ t = self}
  IN  CHOOSE t \in free : \A u \in free : t <= u

\* Scheduler.scheduleNextCheck(delay), run by the callback of handle self (0 when
\* start() runs it) with the stopped flag as given; the callback's own handle is spent.
scheduleNextCheck(self, isStopped, delay) ==
  IF isStopped
    THEN /\ pc' = [q \in Procs |-> IF q = self THEN "idle" ELSE pc[q]]
         /\ UNCHANGED <<timerId, timerDelay>>
    ELSE LET t == NewTimer(self)
         IN  /\ timerId' = t
             /\ pc' = [q \in Procs |-> IF q = t THEN "pending"
                                       ELSE IF q = self THEN "idle" ELSE pc[q]]
             /\ timerDelay' = [timerDelay EXCEPT ![t] = delay]

\* Scheduler.start()
Start ==
  /\ ~AnyReturned
  /\ IF timerId /= 0
       THEN UNCHANGED <<timerId, stopped, timerDelay, pc>>
       ELSE /\ \E t \in Timers : pc[t] = "idle"
            /\ stopped' = FALSE
            /\ scheduleNextCheck(0, FALSE, 0)
  /\ UNCHANGED <<fixed, checkInProgress, pools, frame, result, cycleLog, clock>>

\* clearTimeout(handle): a pending timer is cancelled, a fired one is left alone.
clearTimeout(handle) ==
  /\ pc' = [pc EXCEPT ![handle] = IF @ = "pending" THEN "idle" ELSE @]
  /\ timerDelay' = [timerDelay EXCEPT ![handle] = IF pc[handle] = "pending" THEN 0 ELSE @]

\* Scheduler.stop()
Stop ==
  /\ ~AnyReturned
  /\ IF timerId = 0
       THEN UNCHANGED <<timerId, stopped, pc, timerDelay>>
       ELSE /\ stopped' = TRUE
            /\ clearTimeout(timerId)
            /\ timerId' = 0
  /\ UNCHANGED <<fixed, checkInProgress, pools, frame, result, cycleLog, clock>>

\* A pending timer fires: its callback calls executeCheck().
TimerFires(t) ==
  /\ pc[t] = "pending"
  /\ ~AnyReturned
  /\ timerDelay' = [timerDelay EXCEPT ![t] = 0]
  /\ ExecuteCheck(t)
  /\ UNCHANGED <<fixed, timerId, stopped>>

\* A bug to test the claims against: the callback schedules the next check only
\* after a successful one.
TimerContinuesAfterSuccessOnly(t) ==
  /\ pc[t] = "returned"
  /\ IF ~stopped /\ result[t][1].success
       THEN scheduleNextCheck(t, stopped, Interval)
       ELSE /\ pc' = [pc EXCEPT ![t] = "idle"]
            /\ UNCHANGED <<timerId, timerDelay>>
  /\ result' = [result EXCEPT ![t] = Null]
  /\ cycleLog' = [cycleLog EXCEPT ![t] = <<>>]
  /\ clock' = Rested
  /\ UNCHANGED <<fixed, stopped, checkInProgress, pools, frame>>

\* The callback resumes after `await this.executeCheck()` and schedules the next check.
TimerContinues(t) ==
  /\ pc[t] = "returned"
  /\ IF ~stopped
       THEN scheduleNextCheck(t, stopped, Interval)
       ELSE /\ pc' = [pc EXCEPT ![t] = "idle"]
            /\ UNCHANGED <<timerId, timerDelay>>
  /\ result' = [result EXCEPT ![t] = Null]
  /\ cycleLog' = [cycleLog EXCEPT ![t] = <<>>]
  /\ clock' = Rested
  /\ UNCHANGED <<fixed, stopped, checkInProgress, pools, frame>>

Next ==
  \/ Start
  \/ Stop
  \/ \E c \in Callers : Call(c) \/ Observe(c)
  \/ \E t \in Timers : TimerFires(t) \/ TimerContinues(t)
  \/ \E p \in Procs :
       \/ LaunchBrowserOk(p)
       \/ NewContextOk(p)
       \/ NewPageOk(p)
       \/ LoginOk(p)
       \/ NavigateOk(p)
       \/ \E raw \in RawBatches : ScrapeOk(p, raw)
       \/ SendRequestOk(p)
       \/ SendRequestFails(p)
       \/ SleepDone(p)
       \/ LogoutDone(p)
       \/ CloseSessionDone(p)
       \/ \E error \in StepErrors : Fail(p, error)

Spec == Init /\ [][Next]_vars

\* The collaborator call that process p awaits settles: it returns or it fails.
Settles(p) ==
  \/ LaunchBrowserOk(p)
  \/ NewContextOk(p)
  \/ NewPageOk(p)
  \/ LoginOk(p)
  \/ NavigateOk(p)
  \/ \E raw \in RawBatches : ScrapeOk(p, raw)
  \/ SendRequestOk(p)
  \/ SendRequestFails(p)
  \/ SleepDone(p)
  \/ LogoutDone(p)
  \/ CloseSessionDone(p)
  \/ \E error \in StepErrors : Fail(p, error)

\* The code that awaited process p's executeCheck() call resumes.
Continues(p) == IF p \in Callers THEN Observe(p) ELSE TimerContinues(p)

\* The Scheduler when every collaborator call settles. The event loop runs the
\* continuation of a settled promise however many other calls are made meanwhile
\* (strong fairness), and the continuation of a returned executeCheck() before
\* anything else (weak fairness is enough: nothing else can run).
LiveSpec ==
  /\ Init
  /\ [][Next]_vars
  /\ \A p \in Procs : SF_vars(Settles(p)) /\ WF_vars(Continues(p))

\* ------------------------------------------------------- unit specifications
\* A unit specification drives one class or function directly, as the unit tests
\* do, on inputs drawn from bounded sets. No Scheduler runs: its state stays as
\* constructed.
AtRest ==
  /\ config = [proxyEnabled |-> FALSE, servers |-> TwoServers, webhook |-> Null]
  /\ Constructed

\* ------------------------------------------------- the Scheduler's constructor
\* Scheduler.MIN_INTERVAL
MIN_INTERVAL == 300000

\* How far the intervals tried lie from the minima tried.
MaxOffset == 1

\* The values of config.minInterval tried: absent, or a number of milliseconds.
MinIntervals == {Null, Some(0), Some(1000), Some(MIN_INTERVAL), Some(2 * MIN_INTERVAL)}

\* The values of config.interval tried: around each minimum.
Intervals ==
  {m + d : m \in {0, 1000, MIN_INTERVAL, 2 * MIN_INTERVAL}, d \in (0 - MaxOffset)..MaxOffset}
    \cap Nat

\* The values of systemConfig.browsers tried.
BrowserLists == {<<>>, <<"chromium">>, <<"chromium", "chrome">>}

\* new Scheduler(schedulerConfig, systemConfig, logger): "constructed", or the
\* failure it raises.
constructor(schedulerConfig, systemConfig) ==
  LET minInterval == OrDefault(schedulerConfig.minInterval, MIN_INTERVAL)
  IN  IF schedulerConfig.interval < minInterval
        THEN "Interval must be at least minInterval"
      ELSE IF Len(systemConfig.browsers) = 0
        THEN "Browser pool must have at least one browser"
      ELSE "constructed"

ConstructInit ==
  /\ AtRest
  /\ Untested
  /\ subject \in {Some([schedulerConfig |-> [interval |-> i, minInterval |-> m],
                        systemConfig |-> [browsers |-> b]]) :
                     i \in Intervals, m \in MinIntervals, b \in BrowserLists}

\* The constructor is called on the arguments drawn.
Construct ==
  /\ outcome = Null
  /\ outcome' = Some(constructor(subject[1].schedulerConfig, subject[1].systemConfig))
  /\ UNCHANGED <<config, timerId, checkInProgress, stopped, pools, pc, frame, result,
                 cycleLog, timerDelay, clock, subject, calls, clean, marked>>

ConstructNext == Construct

ConstructSpec == ConstructInit /\ [][ConstructNext]_vars

\* ------------------------------------------------------- the rotation pools
\* Longest item list a pool is built from.
MaxItems == 2

\* Number of blocks of selection calls made between two reset() calls.
MaxBlocks == 2

\* All lists over S of lengths lo..hi.
Lists(S, lo, hi) == UNION { [1..n -> S] : n \in lo..hi }

BrowserTypes == {"chromium", "chrome", "edge"}

CustomUserAgents == {"UA-1", "UA-2"}

\* Proxy configurations: two that share a server and differ in the username, and
\* one with another server.
ProxyConfigs ==
  { [server |-> <<"a",":","1">>, username |-> <<>>],
    [server |-> <<"a",":","1">>, username |-> <<"u">>],
    [server |-> <<"b",":","2">>, username |-> <<>>] }

\* The pools under test. A BrowserPool is never empty (its constructor raises), a
\* UserAgentRotator without custom strings has no rotation, a ProxyRotator may be
\* empty.
Pools ==
  {[kind |-> "browser", items |-> l] : l \in Lists(BrowserTypes, 1, MaxItems)}
    \cup {[kind |-> "userAgent", items |-> l] : l \in Lists(CustomUserAgents, 1, MaxItems)}
    \cup {[kind |-> "proxy", items |-> l] : l \in Lists(ProxyConfigs, 0, MaxItems)}

kind == subject[1].kind

items == subject[1].items

\* What identifies a proxy for exclusion: its server and its username, if any.
Identity(proxy) == [server |-> proxy.server, username |-> proxy.username]

\* Some item of the ProxyRotator is excluded.
SomeItemExcluded == \E i \in 1..Len(items) : getProxyKey(items[i]) \in failedProxies

PoolInit ==
  /\ AtRest
  /\ Untested
  /\ subject \in {Some(pool) : pool \in Pools}

\* The selection calls of one run are bounded.
MayCall == calls < MaxBlocks * MaxItems

\* browserPool.getNextBrowser()
GetNextBrowser ==
  /\ kind = "browser"
  /\ MayCall
  /\ LET r == getNextBrowser(items, browserIndex)
     IN  /\ browserIndex' = r.currentIndex
         /\ outcome' = Some(r.browser)
  /\ calls' = calls + 1
  /\ UNCHANGED <<config, timerId, checkInProgress, stopped, userAgentIndex, proxyIndex,
                 failedProxies, pc, frame, result, cycleLog, timerDelay, clock,
                 subject, clean, marked>>

\* userAgentRotator.getNextUserAgent(browserType)
GetNextUserAgent(browserType) ==
  /\ kind = "userAgent"
  /\ MayCall
  /\ LET r == getNextUserAgent(items, userAgentIndex, browserType)
     IN  /\ userAgentIndex' = r.currentIndex
         /\ outcome' = Some(r.userAgent)
  /\ calls' = calls + 1
  /\ UNCHANGED <<config, timerId, checkInProgress, stopped, browserIndex, proxyIndex,
                 failedProxies, pc, frame, result, cycleLog, timerDelay, clock,
                 subject, clean, marked>>

\* proxyRotator.getNextProxy()
GetNextProxy ==
  /\ kind = "proxy"
  /\ MayCall
  /\ LET r == getNextProxy(items, proxyIndex, failedProxies)
     IN  /\ proxyIndex' = r.currentIndex
         /\ outcome' = Some(r.proxy)
  /\ calls' = calls + 1
  /\ clean' = (clean /\ ~SomeItemExcluded)
  /\ UNCHANGED <<config, timerId, checkInProgress, stopped, browserIndex, userAgentIndex,
                 failedProxies, pc, frame, result, cycleLog, timerDelay, clock,
                 subject, marked>>

\* proxyRotator.markProxyFailed(proxy)
MarkProxyFailed(proxy) ==
  /\ kind = "proxy"
  /\ failedProxies' = markProxyFailed(failedProxies, proxy)
  /\ marked' = marked \cup {Identity(proxy)}
  /\ UNCHANGED <<config, timerId, checkInProgress, stopped, browserIndex, userAgentIndex,
                 proxyIndex, pc, frame, result, cycleLog, timerDelay, clock,
                 subject, outcome, calls, clean>>

\* proxyRotator.resetFailures()
ResetFailures ==
  /\ kind = "proxy"
  /\ failedProxies' = resetFailures(failedProxies)
  /\ marked' = {}
  /\ UNCHANGED <<config, timerId, checkInProgress, stopped, browserIndex, userAgentIndex,
                 proxyIndex, pc, frame, result, cycleLog, timerDelay, clock,
                 subject, outcome, calls, clean>>

\* reset() of the pool under test
Reset ==
  /\ browserIndex' = IF kind = "browser" THEN reset(browserIndex) ELSE browserIndex
  /\ userAgentIndex' = IF kind = "userAgent" THEN reset(userAgentIndex) ELSE userAgentIndex
  /\ proxyIndex' = IF kind = "proxy" THEN reset(proxyIndex) ELSE proxyIndex
  /\ calls' = 0
  /\ clean' = TRUE
  /\ UNCHANGED <<config, timerId, checkInProgress, stopped, failedProxies, pc, frame,
                 result, cycleLog, timerDelay, clock, subject, outcome, marked>>

PoolNext ==
  \/ GetNextBrowser
  \/ \E browserType \in BrowserTypes : GetNextUserAgent(browserType)
  \/ GetNextProxy
  \/ \E proxy \in ProxyConfigs : MarkProxyFailed(proxy)
  \/ ResetFailures
  \/ Reset

PoolSpec == PoolInit /\ [][PoolNext]_vars

\* ------------------------------------------------------------ the classifier
\* Most fragments a failure message is put together from.
MaxFragments == 2

\* The fragments: every marker the classifier looks for and every marker the
\* specification lists, some in upper or mixed case, and a text with no marker.
Fragments ==
  { <<"A","u","t","h","e","n","t","i","c","a","t","i","o","n">>,
    <<"L","O","G","I","N">>,
    <<"c","r","e","d","e","n","t","i","a","l">>,
    <<"U","n","a","u","t","h","o","r","i","z","e","d">>,
    <<"4","0","1">>,
    <<"N","e","t","w","o","r","k">>,
    <<"t","i","m","e","o","u","t">>,
    <<"c","o","n","n","e","c","t","i","o","n"," ","r","e","f","u","s","e","d">>,
    <<"E","C","O","N","N","R","E","F","U","S","E","D">>,
    <<"n","o","t"," ","f","o","u","n","d">>,
    <<"E","N","O","T","F","O","U","N","D">>,
    <<"D","N","S">>,
    <<"p","r","o","x","y">>,
    <<"b","r","o","w","s","e","r">>,
    <<"p","a","g","e">>,
    <<"n","a","v","i","g","a","t","i","o","n">>,
    <<"e","l","e","m","e","n","t"," ","n","o","t"," ","f","o","u","n","d">>,
    <<"s","e","l","e","c","t","o","r">>,
    <<"P","l","a","y","w","r","i","g","h","t">>,
    <<"p","a","r","s","e">>,
    <<"i","n","v","a","l","i","d"," ","d","a","t","e">>,
    <<"i","n","v","a","l","i","d"," ","a","m","o","u","n","t">>,
    <<"i","n","v","a","l","i","d"," ","t","r","a","n","s","a","c","t","i","o","n"," ","t","y","p","e">>,
    <<"m","i","s","s","i","n","g"," ","r","e","q","u","i","r","e","d"," ","f","i","e","l","d","s">>,
    <<"w","e","b","h","o","o","k">>,
    <<"H","T","T","P"," ","r","e","q","u","e","s","t"," ","f","a","i","l","e","d">>,
    <<"f","e","t","c","h">>,
    <<"f","a","i","l","e","d">>,
    <<"c","o","n","f","i","g">>,
    <<"v","a","l","i","d","a","t","i","o","n">>,
    <<"r","e","q","u","i","r","e","d"," ","f","i","e","l","d">>,
    <<"o","o","p","s">> }

\* The fragments joined by single spaces.
RECURSIVE Join(_)
Join(fs) == IF Len(fs) = 1 THEN fs[1] ELSE fs[1] \o <<" ">> \o Join(Tail(fs))

\* error.name: that of a plain Error, and that of a fetch failure in some runtimes.
ErrorNames == {ErrorName, <<"N","e","t","w","o","r","k","E","r","r","o","r">>}

\* The Error objects handed to the classifier.
Errors ==
  {[name |-> n, message |-> Join(fs)] :
     n \in ErrorNames, fs \in Lists(Fragments, 1, MaxFragments)}

ClassifierInit ==
  /\ AtRest
  /\ Untested
  /\ subject \in {Some(e) : e \in Errors}

\* errorHandler.categorizeError(error)
Categorize ==
  /\ outcome = Null
  /\ outcome' = Some(categorizeError(subject[1]))
  /\ UNCHANGED <<config, timerId, checkInProgress, stopped, pools, pc, frame, result,
                 cycleLog, timerDelay, clock, subject, calls, clean, marked>>

ClassifierNext == Categorize

ClassifierSpec == ClassifierInit /\ [][ClassifierNext]_vars

\* ---------------------------------------------------------- the error handler
\* Largest attempt number tried; the limits tried go one further.
MaxAttempt == 7

\* enum ErrorCategory
ErrorCategory == {"authentication", "network", "browser", "parsing", "webhook", "config"}

\* The fields of an ErrorContext the handler reads.
ErrorContexts == [attempt : 0..MaxAttempt, maxAttempts : 0..(MaxAttempt + 1)]

\* The failures handed to handleError: one fragment each, so every category occurs.
HandledErrors == {[name |-> ErrorName, message |-> f] : f \in Fragments}

HandlerInit ==
  /\ AtRest
  /\ Untested
  /\ subject \in {Some([error |-> e, context |-> c]) : e \in HandledErrors, c \in ErrorContexts}

\* errorHandler.isRecoverable(category, context)
IsRecoverable ==
  /\ outcome = Null
  /\ \E category \in ErrorCategory :
       outcome' = Some([call |-> "isRecoverable", category |-> category,
                        returned |-> isRecoverable(category, subject[1].context)])
  /\ UNCHANGED <<config, timerId, checkInProgress, stopped, pools, pc, frame, result,
                 cycleLog, timerDelay, clock, subject, calls, clean, marked>>

\* errorHandler.handleError(error, context)
HandleError ==
  /\ outcome = Null
  /\ outcome' = Some([call |-> "handleError",
                      category |-> categorizeError(subject[1].error),
                      returned |-> handleError(subject[1].error, subject[1].context)])
  /\ UNCHANGED <<config, timerId, checkInProgress, stopped, pools, pc, frame, result,
                 cycleLog, timerDelay, clock, subject, calls, clean, marked>>

HandlerNext == IsRecoverable \/ HandleError

HandlerSpec == HandlerInit /\ [][HandlerNext]_vars

\* ------------------------------------------------------- the WebhookClient
\* Largest retryAttempts configured and largest attempts passed to sendWithRetry.
MaxRetry == 4

\* The caller that uses the WebhookClient directly.
Client == MaxTimers + 1

\* WebhookConfig.retryAttempts is optional; validation accepts every number >= 0.
ClientConfigs == [retryAttempts : {Null} \cup {Some(n) : n \in 0..MaxRetry}]

Accounts == {"1234567890", "0987654321"}

\* The statuses the endpoint answers with.
Statuses == {200, 204, 404}

\* A bug to test the claims against: only a server error counts as a failed attempt.
okBelowServerError(status) == status < 500

\* Response.ok
ok(status) == status \in 200..299

\* A bug to test the claims against: the backoff starts at two seconds.
calculateBackoffDoubled(attempt) == (2 ^ attempt) * 1000

calculateBackoff(attempt) == (2 ^ (attempt - 1)) * 1000

\* Date.prototype.toISOString: the text form of an instant.
toISOString(date) == [iso8601 |-> date]

\* JSON.stringify of a WebhookPayload: its properties in the order of the object
\* literal, the array element by element (a record's text is [json |-> record]).
stringify(payload) ==
  << <<"timestamp", payload.timestamp>>,
     <<"account", payload.account>>,
     <<"mutations", [i \in 1..Len(payload.mutations) |-> [json |-> payload.mutations[i]]]>> >>

\* A bug to test the claims against: the records are sent newest first.
sendRequestReversed(mutations, account, now) ==
  LET payload == [timestamp |-> toISOString(now),
                  account |-> account,
                  mutations |-> [i \in 1..Len(mutations) |-> mutations[Len(mutations) + 1 - i]]]
  IN  [call |-> "fetch", at |-> now, method |-> "POST",
       headers |-> {<<"Content-Type", "application/json">>},
       body |-> stringify(payload)]

\* sendRequest up to its await: the fetch call it makes at the instant `now`.
sendRequest(mutations, account, now) ==
  LET payload == [timestamp |-> toISOString(now),
                  account |-> account,
                  mutations |-> mutations]
  IN  [call |-> "fetch", at |-> now, method |-> "POST",
       headers |-> {<<"Content-Type", "application/json">>},
       body |-> stringify(payload)]

Fulfilled == Some([settled |-> "fulfilled", error |-> "none"])

Rejected(error) == Some([settled |-> "rejected", error |-> error])

DeliveryInit ==
  /\ AtRest
  /\ Untested
  /\ subject \in {Some([config |-> k, mutations |-> m, account |-> a]) :
                    k \in ClientConfigs, m \in Lists(1..MaxRaw, 0, MaxRaw), a \in Accounts}

\* sendWithRetry from its call to its first await, or to its throw when the loop
\* makes no pass.
sendWithRetry(entry, attempts) ==
  /\ outcome = Null
  /\ pc[Client] = "idle"
  /\ frame' = [frame EXCEPT ![Client].mutations = subject[1].mutations,
                            ![Client].attempt = 1,
                            ![Client].maxAttempts = attempts]
  /\ IF 1 <= attempts
       THEN /\ pc' = [pc EXCEPT ![Client] = "sendRequest"]
            /\ cycleLog' = [cycleLog EXCEPT ![Client] =
                  <<entry, sendRequest(subject[1].mutations, subject[1].account, clock)>>]
            /\ outcome' = outcome
       ELSE /\ pc' = pc
            /\ cycleLog' = [cycleLog EXCEPT ![Client] = <<entry>>]
            /\ outcome' = Rejected(WebhookFailure)
  /\ UNCHANGED <<config, timerId, checkInProgress, stopped, pools, result, timerDelay,
                 clock, subject, calls, clean, marked>>

\* webhookClient.send(mutations, account)
Send ==
  sendWithRetry([call |-> "send"], OrDefault(subject[1].config.retryAttempts, 3))

\* webhookClient.sendWithRetry(mutations, account, attempts)
SendWithRetry(attempts) ==
  sendWithRetry([call |-> "sendWithRetry"], attempts)

\* The catch block of sendWithRetry: the attempt failed; the loop sleeps before the
\* next attempt, or ends and the failure of the delivery is raised.
AttemptFailed(answer) ==
  IF frame[Client].attempt < frame[Client].maxAttempts
    THEN /\ pc' = [pc EXCEPT ![Client] = "sleep"]
         /\ cycleLog' = [cycleLog EXCEPT ![Client] = cycleLog[Client] \o
               <<answer, [call |-> "sleep", ms |-> calculateBackoff(frame[Client].attempt)]>>]
         /\ outcome' = outcome
    ELSE /\ pc' = [pc EXCEPT ![Client] = "idle"]
         /\ cycleLog' = [cycleLog EXCEPT ![Client] = cycleLog[Client] \o <<answer>>]
         /\ outcome' = Rejected(WebhookFailure)

\* fetch resolves with a response of this status.
Responds(status) ==
  /\ pc[Client] = "sendRequest"
  /\ outcome = Null
  /\ LET answer == [call |-> "response", ok |-> ok(status), status |-> status]
     IN  IF ok(status)
           THEN /\ pc' = [pc EXCEPT ![Client] = "idle"]
                /\ cycleLog' = [cycleLog EXCEPT ![Client] = cycleLog[Client] \o <<answer>>]
                /\ outcome' = Fulfilled
           ELSE AttemptFailed(answer)
  /\ clock' = Later
  /\ UNCHANGED <<config, timerId, checkInProgress, stopped, pools, frame, result,
                 timerDelay, subject, calls, clean, marked>>

\* fetch rejects: the request never got an answer.
Unreachable ==
  /\ pc[Client] = "sendRequest"
  /\ outcome = Null
  /\ AttemptFailed([call |-> "response", ok |-> FALSE, status |-> 0])
  /\ clock' = Later
  /\ UNCHANGED <<config, timerId, checkInProgress, stopped, pools, frame, result,
                 timerDelay, subject, calls, clean, marked>>

\* The backoff sleep ends; the loop makes its next attempt.
BackoffOver ==
  /\ pc[Client] = "sleep"
  /\ frame' = [frame EXCEPT ![Client].attempt = frame[Client].attempt + 1]
  /\ pc' = [pc EXCEPT ![Client] = "sendRequest"]
  /\ cycleLog' = [cycleLog EXCEPT ![Client] = cycleLog[Client] \o
        <<sendRequest(frame[Client].mutations, subject[1].account, Later)>>]
  /\ clock' = Later
  /\ UNCHANGED <<config, timerId, checkInProgress, stopped, pools, result, timerDelay,
                 subject, outcome, calls, clean, marked>>

DeliveryNext ==
  \/ Send
  \/ \E attempts \in 0..MaxRetry : SendWithRetry(attempts)
  \/ \E status \in Statuses : Responds(status)
  \/ Unreachable
  \/ BackoffOver

DeliverySpec == DeliveryInit /\ [][DeliveryNext]_vars

\* ------------------------------------------------------------------- claims
Range(s) == {s[i] : i \in 1..Len(s)}

Count(s, e) == Cardinality({i \in 1..Len(s) : s[i] = e})

\* The failure a cycle raised out of its try block, read from the cycle's log.
RaisedIn(log) == log[(CHOOSE i \in 1..Len(log) : log[i] = "raised") + 1]

\* Process p makes its executeCheck() call in this step.
Invokes(p) == pc[p] \in {"idle", "pending"} /\ pc'[p] \notin {"idle", "pending"}

\* C1: at every instant at most one process is between the guard of executeCheck and
\* its return, whatever the interleaving of manual calls, timer firings, start() and
\* stop().
C1_AtMostOneCycle == Cardinality({p \in Procs : InCycle(p)}) <= 1

\* C1 witness: a manual cycle is in its body and a timer's call has just been rejected.
C1_Witness ==
  \E c \in Callers, t \in Timers :
    /\ InCycle(c)
    /\ pc[t] = "returned"
    /\ result[t] = Some(RejectedResult(clock))

\* C2: a call made while no cycle is in progress enters the cycle body; a call made
\* while one is in progress returns in the same step with success=false and
\* "Check already in progress", runs none of the body, and leaves the running cycle
\* alone, which later returns its own outcome, never the rejection.
C2_OneRunsOthersRejected ==
  [][\A p \in Procs :
       /\ Invokes(p) =>
            IF \E q \in Procs : InCycle(q)
              THEN /\ pc'[p] = "returned"
                   /\ result'[p] /= Null
                   /\ result'[p][1].success = FALSE
                   /\ result'[p][1].error = AlreadyInProgress
                   /\ cycleLog'[p] = <<>>
                   /\ \A q \in Procs \ {p} : pc'[q] = pc[q]
                   /\ UNCHANGED <<pools, frame>>
              ELSE InCycle(p)'
       /\ (InCycle(p) /\ pc'[p] = "returned") =>
            /\ result'[p] /= Null
            /\ result'[p][1].error /= AlreadyInProgress]_vars

\* C2 witness: of two manual calls, one is in the body and the other was rejected.
C2_Witness ==
  \E c \in Callers, d \in Callers :
    /\ InCycle(c)
    /\ pc[d] = "returned"
    /\ result[d][1].error = AlreadyInProgress
    /\ result[d][1].success = FALSE

\* C3: when an executeCheck() that passed the guard has returned, by success or by a
\* failure of the body, the in-progress flag is false; so the flag is set only while
\* a cycle is in progress, and a call made after the return is not rejected.
C3_FlagClearedOnReturn ==
  /\ \A p \in Procs : (pc[p] = "returned" /\ cycleLog[p] /= <<>>) => ~checkInProgress
  /\ (\A p \in Procs : ~InCycle(p)) => ~checkInProgress

\* C3 witness: a cycle whose body raised has returned, and the flag is clear.
C3_Witness ==
  \E p \in Procs :
    /\ pc[p] = "returned"
    /\ "raised" \in Range(cycleLog[p])
    /\ result[p][1].success = FALSE
    /\ ~checkInProgress

\* C4 (as claimed): every cycle that acquired a session has called logout and
\* closeSession by the time it returns.
C4_LogoutAndCloseAlways ==
  \A p \in Procs :
    (pc[p] = "returned" /\ "sessionCreated" \in Range(cycleLog[p])) =>
      /\ "logout" \in Range(cycleLog[p])
      /\ "closeSession" \in Range(cycleLog[p])

\* C5 (as claimed): every cycle that passed the guard has called closeSession exactly
\* once by the time it returns.
C5_CloseExactlyOnce ==
  \A p \in Procs :
    (pc[p] = "returned" /\ cycleLog[p] /= <<>>) => Count(cycleLog[p], "closeSession") = 1

\* C6: a cycle in which send raised after its last attempt still calls logout and
\* then closeSession, raises nothing out of performCheck, and returns success=true.
C6_DeliveryFailureAbsorbed ==
  \A p \in Procs :
    "sendThrows" \in Range(cycleLog[p]) =>
      /\ "raised" \notin Range(cycleLog[p])
      /\ frame[p].error = "none"
      /\ "logout" \in Range(cycleLog[p])
      /\ pc[p] \in {"logout", "closeSession", "returned"}
      /\ pc[p] = "returned" =>
           /\ result[p] = Some(SuccessResult(0))
           /\ Count(cycleLog[p], "logout") = 1
           /\ cycleLog[p][Len(cycleLog[p])] = "closeSession"

\* C6 witness: a cycle whose delivery was exhausted has returned success.
C6_Witness ==
  \E p \in Procs :
    /\ pc[p] = "returned"
    /\ "sendThrows" \in Range(cycleLog[p])
    /\ result[p][1].success

\* C7: a cycle leaves its body only by executeCheck returning a result; when
\* createSession, login, navigation or scrape failed, the failure was classified
\* and the result is success=false with that failure and the cycle's start time
\* (0 on the clock, which counts from the start of the cycle).
C7_FailureReturnedNotRaised ==
  /\ \A p \in Procs : pc[p] = "returned" => result[p] /= Null
  /\ \A p \in Procs :
       (pc[p] = "returned" /\ "raised" \in Range(cycleLog[p])) =>
         /\ "handleError" \in Range(cycleLog[p])
         /\ result[p][1].success = FALSE
         /\ result[p][1].error = RaisedIn(cycleLog[p])
         /\ result[p][1].timestamp = 0

\* C7 witness: a cycle that failed in scrape has returned that failure.
C7_Witness ==
  \E p \in Procs :
    /\ pc[p] = "returned"
    /\ "scrape" \in Range(cycleLog[p])
    /\ "raised" \in Range(cycleLog[p])
    /\ result[p][1].error \in StepErrors

\* C8 (as claimed): while the stopped flag is set, that is from a stop() on a started
\* Scheduler until the next start(), no timer is pending (so none can fire and start
\* a cycle).
C8_NoTimerAfterStop == stopped => \A t \in Timers : pc[t] /= "pending"

\* C9 (as claimed): whenever code outside the Scheduler can run, isRunning() is
\* true exactly when a timer is pending or a cycle is in progress.
C9_IsRunningExact ==
  ~AnyReturned =>
    (isRunning <=> ((\E t \in Timers : pc[t] = "pending") \/ (\E p \in Procs : InCycle(p))))

\* C10 (as claimed): start() called while isRunning() is true arms no timer and
\* leaves the stopped flag as it was.
C10_StartWhileRunningNoOp ==
  [][(Start /\ isRunning) => UNCHANGED <<pc, timerId, timerDelay, stopped>>]_vars

\* C11 (as claimed): start() arms the first timer with zero delay, and the timer a
\* callback arms after its cycle is due one interval after that cycle was scheduled
\* to run. The cycle started when its timer fired, so the clock reads the time
\* since the cycle was scheduled to run (taking the timer to have fired on time).
C11_IntervalFromSchedule ==
  [][/\ (Start /\ timerId = 0) => timerDelay'[timerId'] = 0
     /\ \A t \in Timers :
          (TimerContinues(t) /\ ~stopped /\ cycleLog[t] /= <<>>) =>
            clock + timerDelay'[timerId'] = Interval]_vars

\* C12: a timer callback whose executeCheck() has returned, whatever the result,
\* while the stopped flag is clear, arms a timer with the interval as its delay and
\* leaves the flag clear.
C12_FailedCycleReschedules ==
  [][\A t \in Timers :
       (pc[t] = "returned" /\ ~stopped /\ pc'[t] /= "returned") =>
         /\ timerId' \in Timers
         /\ pc'[timerId'] = "pending"
         /\ timerDelay'[timerId'] = Interval
         /\ stopped' = FALSE]_vars

\* C13 (as claimed): given a browser list that is not empty, construction fails
\* exactly when the interval is below the minimum, the minimum being the configured
\* minInterval, or 300000 ms when none is configured.
C13_ConstructionByMinimum ==
  (outcome /= Null /\ Len(subject[1].systemConfig.browsers) > 0) =>
    LET c == subject[1].schedulerConfig
        minimum == IF c.minInterval = Null THEN 300000 ELSE c.minInterval[1]
    IN  (outcome[1] = "constructed") <=> (c.interval >= minimum)

\* C14: in a pool of N >= 1 items, the k-th selection call (0-indexed, counted from
\* construction or reset()) returns items[k mod N]; for a ProxyRotator, as long as
\* no selection call met an excluded item.
C14_RoundRobin ==
  (calls > 0 /\ Len(items) > 0 /\ (kind = "proxy" => clean)) =>
    LET item == items[((calls - 1) % Len(items)) + 1]
    IN  outcome = Some(IF kind = "proxy" THEN Some(item) ELSE item)

\* C14 witness: a ProxyRotator of two different items, none excluded, has answered
\* the last call of its second block with its second item.
C14_Witness ==
  /\ kind = "proxy"
  /\ Len(items) = 2
  /\ items[1] /= items[2]
  /\ clean
  /\ calls = 4
  /\ outcome = Some(Some(items[2]))

\* C15: no getNextProxy() call returns an item whose identity was marked failed
\* since the last resetFailures(), whatever calls came between.
C15_ExcludedNeverReturned ==
  [][GetNextProxy =>
       (outcome'[1] = Null \/ Identity(outcome'[1][1]) \notin marked)]_vars

\* C15 witness: the first of two items is marked failed, a selection call met it,
\* and the last call returned the second item.
C15_Witness ==
  /\ kind = "proxy"
  /\ Len(items) = 2
  /\ Identity(items[1]) \in marked
  /\ Identity(items[2]) \notin marked
  /\ ~clean
  /\ outcome = Some(Some(items[2]))

\* C16: while every item of a ProxyRotator is marked failed, every getNextProxy()
\* call returns null; and with no item marked since the last resetFailures(), the
\* first call after reset() returns items[0].
C16_ExhaustedReturnsNull ==
  [][GetNextProxy =>
       /\ (Len(items) > 0 /\ \A i \in 1..Len(items) : Identity(items[i]) \in marked) =>
            outcome' = Some(Null)
       /\ (Len(items) > 0 /\ marked = {} /\ calls = 0) =>
            outcome' = Some(Some(items[1]))]_vars

\* C16 witness: both items of a ProxyRotator are marked failed, after a first call
\* that returned an item, and the last call returned null.
C16_Witness ==
  /\ kind = "proxy"
  /\ Len(items) = 2
  /\ items[1] /= items[2]
  /\ \A i \in 1..2 : Identity(items[i]) \in marked
  /\ calls >= 2
  /\ outcome = Some(Null)

\* The classification of a failure of steps 2-4 of a cycle.
CycleContext == [attempt |-> 1, maxAttempts |-> 3]

\* C17 (as claimed): when a cycle that selected a route fails in createSession,
\* login, navigation or scrape with a failure categorized Network for which the
\* action is Retry, then from the failure on getNextProxy() does not return that
\* route, wherever the cursor stands.
C17_NetworkFailureMarksRoute ==
  [][\A p \in Procs, error \in StepErrors :
       ( /\ Fail(p, error)
         /\ frame[p].proxy /= Null
         /\ categorizeError(ErrorOf(error)) = "network"
         /\ handleError(ErrorOf(error), CycleContext).type = "retry" ) =>
         \A i \in 0..(Len(ProxyServers) - 1) :
           getNextProxy(ProxyServers, i, failedProxies').proxy /= frame[p].proxy]_vars

\* C18 (as claimed): a cycle failure that is not categorized Network leaves the
\* excluded set of the egress-route pool as it was.
C18_OnlyNetworkMarksRoute ==
  [][\A p \in Procs, error \in StepErrors :
       (Fail(p, error) /\ categorizeError(ErrorOf(error)) /= "network") =>
         failedProxies' = failedProxies]_vars

\* Some marker of the group is a substring of the text.
HasMarker(text, group) == \E m \in group : Includes(text, m)

AuthenticationMarkers == {<<"a","u","t","h","e","n","t","i","c","a","t","i","o","n">>, <<"l","o","g","i","n">>, <<"c","r","e","d","e","n","t","i","a","l">>, <<"u","n","a","u","t","h","o","r","i","z","e","d">>, <<"4","0","1">>}

\* The category the specification's marker lists give a lower-cased description.
SpecCategory(text) ==
  IF HasMarker(text, AuthenticationMarkers) THEN "authentication"
  ELSE IF HasMarker(text, {<<"n","e","t","w","o","r","k">>, <<"t","i","m","e","o","u","t">>, <<"c","o","n","n","e","c","t","i","o","n"," ","r","e","f","u","s","e","d">>, <<"n","o","t"," ","f","o","u","n","d">>, <<"d","n","s">>, <<"p","r","o","x","y">>})
    THEN "network"
  ELSE IF HasMarker(text, {<<"b","r","o","w","s","e","r">>, <<"p","a","g","e">>, <<"n","a","v","i","g","a","t","i","o","n">>, <<"e","l","e","m","e","n","t"," ","n","o","t"," ","f","o","u","n","d">>, <<"s","e","l","e","c","t","o","r">>})
    THEN "browser"
  ELSE IF HasMarker(text, {<<"p","a","r","s","e">>, <<"i","n","v","a","l","i","d"," ","d","a","t","e">>, <<"i","n","v","a","l","i","d"," ","a","m","o","u","n","t">>, <<"i","n","v","a","l","i","d"," ","t","r","a","n","s","a","c","t","i","o","n"," ","t","y","p","e">>, <<"m","i","s","s","i","n","g"," ","r","e","q","u","i","r","e","d"," ","f","i","e","l","d","s">>})
    THEN "parsing"
  ELSE IF \/ HasMarker(text, {<<"w","e","b","h","o","o","k">>, <<"h","t","t","p"," ","r","e","q","u","e","s","t"," ","f","a","i","l","e","d">>})
          \/ (Includes(text, <<"f","e","t","c","h">>) /\ Includes(text, <<"f","a","i","l","e","d">>))
    THEN "webhook"
  ELSE IF HasMarker(text, {<<"c","o","n","f","i","g">>, <<"v","a","l","i","d","a","t","i","o","n">>, <<"r","e","q","u","i","r","e","d"," ","f","i","e","l","d">>})
    THEN "config"
  ELSE "browser"

\* C19 (as claimed): categorizeError returns the category of the first group, in
\* the specification's priority order, one of whose listed markers is a substring
\* of the lower-cased message, and ExecutionEnvironment (browser) when none is.
C19_CategoryBySpecMarkers ==
  outcome /= Null => outcome[1] = SpecCategory(toLowerCase(subject[1].message))

\* C20: a message that contains "authentication", "login", "credential",
\* "unauthorized" or "401" in any letter case is categorized Authentication,
\* whatever else it contains and whatever the name of the Error.
C20_AuthenticationFirst ==
  (outcome /= Null /\ HasMarker(toLowerCase(subject[1].message), AuthenticationMarkers)) =>
    outcome[1] = "authentication"

\* C20 witness: a message with "LOGIN" in upper case after a Network marker, in
\* an Error named NetworkError, has been categorized Authentication.
C20_Witness ==
  /\ outcome = Some("authentication")
  /\ subject[1].message = <<"p","r","o","x","y"," ","L","O","G","I","N">>
  /\ subject[1].name /= ErrorName

\* C21: isRecoverable(category, context) is false for the Configuration category at
\* every attempt number, and for every other category it is true exactly when
\* attempt < maxAttempts.
C21_RecoverableBelowLimit ==
  (outcome # Null /\ outcome[1].call = "isRecoverable") =>
    LET context == subject[1].context
    IN  outcome[1].returned =
          (outcome[1].category # "config" /\ context.attempt < context.maxAttempts)

\* C21 witness: a Network failure at the attempt that reaches the limit was found
\* not recoverable.
C21_Witness ==
  /\ outcome # Null
  /\ outcome[1].call = "isRecoverable"
  /\ outcome[1].category = "network"
  /\ subject[1].context.attempt = subject[1].context.maxAttempts
  /\ subject[1].context.attempt > 0
  /\ outcome[1].returned = FALSE

\* C22: handleError returns Fatal with exitCode 1 exactly when the failure is
\* categorized Configuration; for every other category, at every attempt and limit,
\* the action is Retry, Skip or Fallback, and Skip when the failure is not recoverable.
C22_FatalOnlyForConfiguration ==
  (outcome # Null /\ outcome[1].call = "handleError") =>
    LET context == subject[1].context
        action == outcome[1].returned
    IN  IF outcome[1].category = "config"
          THEN action = [type |-> "fatal", exitCode |-> 1]
          ELSE /\ action.type \in {"retry", "skip", "fallback"}
               /\ context.attempt >= context.maxAttempts => action = [type |-> "skip"]

\* C22 witness: a Network failure past its limit was handled, and was skipped.
C22_Witness ==
  /\ outcome # Null
  /\ outcome[1].call = "handleError"
  /\ outcome[1].category = "network"
  /\ subject[1].context.attempt > subject[1].context.maxAttempts
  /\ outcome[1].returned.type = "skip"

\* C23: for a recoverable failure at attempt a the action is Retry after
\* min(2^a, 60) seconds for Network, min(2^a, 30) seconds for Delivery and 30 seconds
\* for Authentication; every Retry delay is above 0 and at most 60 seconds.
C23_RetryDelays ==
  (outcome # Null /\ outcome[1].call = "handleError") =>
    LET context == subject[1].context
        category == outcome[1].category
        action == outcome[1].returned
        a == context.attempt
    IN  /\ (category # "config" /\ a < context.maxAttempts) =>
              /\ category = "network" =>
                    action = [type |-> "retry", delay |-> 1000 * Min(2 ^ a, 60)]
              /\ category = "webhook" =>
                    action = [type |-> "retry", delay |-> 1000 * Min(2 ^ a, 30)]
              /\ category = "authentication" =>
                    action = [type |-> "retry", delay |-> 1000 * 30]
        /\ action.type = "retry" => (action.delay > 0 /\ action.delay <= 1000 * 60)

\* C23 witness: a Network failure at attempt 6, where 2^6 seconds is over the
\* ceiling, is retried after 60 seconds.
C23_Witness ==
  /\ outcome # Null
  /\ outcome[1].call = "handleError"
  /\ outcome[1].category = "network"
  /\ subject[1].context.attempt = 6
  /\ outcome[1].returned = [type |-> "retry", delay |-> 60000]

\* What the WebhookClient did after it was called: its requests, their answers and
\* its sleeps, in order.
Wire == IF cycleLog[Client] = <<>> THEN <<>> ELSE Tail(cycleLog[Client])

Requests == SelectSeq(Wire, LAMBDA e : e.call = "fetch")

Answers == SelectSeq(Wire, LAMBDA e : e.call = "response")

Sleeps == SelectSeq(Wire, LAMBDA e : e.call = "sleep")

\* C24: when sendWithRetry is given A attempts and no attempt is acknowledged, it makes
\* exactly A requests, sleeps 1, 2, 4, ..., 2^(A-2) seconds between them in that
\* order and not after the last one, and then raises the failure of the delivery.
C24_ExhaustedAttempts ==
  LET A == frame[Client].maxAttempts
  IN  (outcome # Null /\ \A i \in 1..Len(Answers) : ~Answers[i].ok) =>
        /\ Len(Requests) = A
        /\ Len(Answers) = A
        /\ Sleeps = [i \in 1..(A - 1) |-> [call |-> "sleep", ms |-> 1000 * (2 ^ (i - 1))]]
        /\ \A k \in 1..Len(Wire) :
             Wire[k].call = CASE k % 3 = 1 -> "fetch"
                              [] k % 3 = 2 -> "response"
                              [] OTHER -> "sleep"
        /\ A >= 1 => Wire[Len(Wire)].call = "response"
        /\ outcome = Rejected(WebhookFailure)

\* C24 witness: four attempts failed, three sleeps lay between them, and the failure
\* was raised.
C24_Witness ==
  /\ outcome = Rejected(WebhookFailure)
  /\ frame[Client].maxAttempts = 4
  /\ Len(Requests) = 4
  /\ Len(Sleeps) = 3
  /\ Sleeps[3].ms = 4000

\* C25: sendWithRetry returns as soon as an attempt is answered with a 2xx status and
\* makes no request and no sleep after it; any other status and any transport error
\* is a failed attempt. The attempts made are as many as the index of the first 2xx
\* answer, and never more than maxAttempts.
C25_ReturnsOnFirstSuccess ==
  /\ Len(cycleLog[Client]) > 0 =>
        /\ Len(Requests) <= frame[Client].maxAttempts
        /\ \A i \in 1..Len(Answers) : Answers[i].ok = (Answers[i].status \in 200..299)
        /\ \A i \in 1..Len(Answers) :
             Answers[i].ok => (i = Len(Answers) /\ outcome = Fulfilled
                                /\ Wire[Len(Wire)] = Answers[i] /\ Len(Requests) = i)
  /\ outcome = Fulfilled => (Len(Answers) > 0 /\ Answers[Len(Answers)].ok)

\* C25 witness: the second attempt was acknowledged after the first was refused with
\* a status outside 2xx, with attempts to spare.
C25_Witness ==
  /\ outcome = Fulfilled
  /\ frame[Client].maxAttempts = 4
  /\ Len(Requests) = 2
  /\ Answers[1].status = 404
  /\ Answers[2].status = 204

\* C26: send() makes as many attempts at most as retryAttempts says whenever
\* retryAttempts is configured, and 3 only when it is not configured.
C26_ConfiguredAttemptsUsed ==
  (Len(cycleLog[Client]) > 0 /\ cycleLog[Client][1].call = "send") =>
    frame[Client].maxAttempts =
      IF subject[1].config.retryAttempts = Null THEN 3
      ELSE subject[1].config.retryAttempts[1]

\* C27: every request is a POST with Content-Type application/json whose body has
\* exactly the fields timestamp (the ISO-8601 text of the instant of that attempt),
\* account (the account passed to send) and mutations (the records passed to send, as
\* many and in the same order).
C27_WireFormat ==
  \A i \in 1..Len(Requests) :
    LET request == Requests[i]
        body == request.body
        field(k) == body[CHOOSE j \in 1..Len(body) : body[j][1] = k][2]
    IN  /\ request.method = "POST"
        /\ request.headers = {<<"Content-Type", "application/json">>}
        /\ Len(body) = 3
        /\ {body[j][1] : j \in 1..Len(body)} = {"timestamp", "account", "mutations"}
        /\ field("timestamp") = [iso8601 |-> request.at]
        /\ field("account") = subject[1].account
        /\ Len(field("mutations")) = Len(subject[1].mutations)
        /\ \A j \in 1..Len(subject[1].mutations) :
             field("mutations")[j] = [json |-> subject[1].mutations[j]]

\* C27 witness: a second request went out later than the first, each with its own
\* timestamp, carrying two different records.
C27_Witness ==
  /\ Len(Requests) = 2
  /\ Requests[1].at < Requests[2].at
  /\ Len(subject[1].mutations) = 2
  /\ subject[1].mutations[1] # subject[1].mutations[2]

\* The step of section 4.4 an event of a cycle's log belongs to (0: none). Release
\* is step 6 and classification, with the marking of the route, step 7 there; here
\* selection is 1, acquisition 2, and so on to 8.
StepOf(event) ==
  CASE event = "select" -> 1
    [] event \in {"createSession", "browserLaunched", "sessionCreated"} -> 2
    [] event = "login" -> 3
    [] event \in {"navigate", "scrape"} -> 4
    [] event = "parse" -> 5
    [] event \in {"send", "sendRequest", "sleep", "sendThrows", "handleWebhookError"} -> 6
    [] event \in {"logout", "closeSession"} -> 7
    [] event \in {"handleError", "markProxyFailed"} -> 8
    [] OTHER -> 0

\* C28 (as claimed): the steps of a cycle run in the order selection, acquisition,
\* authentication, fetch, parse, delivery, logout and release, classification: no
\* step is begun after a later one, and in particular the release of the session is
\* not called after the failure was classified or a route marked.
C28_StepsInOrder ==
  \A p \in Procs :
    \A i, j \in 1..Len(cycleLog[p]) :
      (i < j /\ StepOf(cycleLog[p][i]) > 0 /\ StepOf(cycleLog[p][j]) > 0) =>
        StepOf(cycleLog[p][i]) <= StepOf(cycleLog[p][j])

C30_SendOncePerCycle ==
  [][\A p \in Procs :
       /\ Count(cycleLog'[p], "send") <= 1
       /\ Count(cycleLog'[p], "send") > Count(cycleLog[p], "send") =>
            \E raw \in RawBatches : ScrapeOk(p, raw)
       /\ \A raw \in RawBatches :
            ScrapeOk(p, raw) =>
              LET parsed == SelectSeq([i \in 1..Len(raw) |-> i], LAMBDA i : raw[i])
                  sent == "send" \in Range(cycleLog'[p])
              IN  /\ sent <=> (config.webhook # Null /\ Len(parsed) >= 1)
                  /\ sent => frame'[p].mutations = parsed]_vars

\* C30 witness: of a batch of two records the first failed to parse; send() was
\* invoked once, with the second record alone.
C30_Witness ==
  \E p \in Procs :
    /\ pc[p] = "sendRequest"
    /\ Count(cycleLog[p], "send") = 1
    /\ frame[p].mutations = <<2>>

\* C31: getNextProxy() returns the first item, scanning forward from the cursor and
\* wrapping over at most N positions, whose identity is not excluded, and leaves the
\* cursor one past that item, modulo N; it returns null when one full scan finds none.
C31_FirstAvailableFromCursor ==
  [][GetNextProxy =>
       LET N == Len(items)
           at(k) == ((proxyIndex + k) % N) + 1
           free == {k \in 0..(N - 1) : Identity(items[at(k)]) \notin marked}
       IN  IF free = {}
             THEN outcome' = Some(Null)
             ELSE LET first == CHOOSE k \in free : \A l \in free : k <= l
                  IN  /\ outcome' = Some(Some(items[at(first)]))
                      /\ proxyIndex' = at(first) % N]_vars

\* C31 witness: with the cursor on the second of two items and that item excluded,
\* the second call wrapped round to the first item and left the cursor on the second.
C31_Witness ==
  /\ kind = "proxy"
  /\ Len(items) = 2
  /\ items[1] /= items[2]
  /\ marked = {Identity(items[2])}
  /\ calls = 2
  /\ outcome = Some(Some(items[1]))
  /\ proxyIndex = 1

\* The cursor of the pool under test.
Cursor ==
  CASE kind = "browser" -> browserIndex
    [] kind = "userAgent" -> userAgentIndex
    [] kind = "proxy" -> proxyIndex

\* C32: in a pool built from a non-empty list the cursor is always a whole number from
\* 0 to one less than the number of items, whatever selection, reset, markProxyFailed
\* and resetFailures calls were made, and no call changes the list of items.
C32_CursorInRange ==
  /\ [](Len(items) > 0 => Cursor \in 0..(Len(items) - 1))
  /\ [][items' = items]_vars

\* C32 witness: a ProxyRotator of two items, one of them marked failed, has made two
\* selection calls and its cursor is back at 0.
C32_Witness ==
  /\ kind = "proxy"
  /\ Len(items) = 2
  /\ marked /= {}
  /\ calls = 2
  /\ proxyIndex = 0

\* C33: for a recoverable failure the action is Fallback for the Browser category
\* while attempt < 3 and Skip from attempt 3 on, and Skip for the Parsing category at
\* every attempt, the first included.
C33_FallbackThenSkip ==
  (outcome # Null /\ outcome[1].call = "handleError") =>
    LET context == subject[1].context
        category == outcome[1].category
        action == outcome[1].returned
    IN  (category # "config" /\ context.attempt < context.maxAttempts) =>
          /\ category = "browser" =>
                /\ context.attempt < 3 => action.type = "fallback"
                /\ context.attempt >= 3 => action = [type |-> "skip"]
          /\ category = "parsing" => action = [type |-> "skip"]

\* C33 witness: a Browser failure at attempt 3 of 5, still recoverable, was skipped.
C33_Witness ==
  /\ outcome # Null
  /\ outcome[1].call = "handleError"
  /\ outcome[1].category = "browser"
  /\ subject[1].context = [attempt |-> 3, maxAttempts |-> 5]
  /\ outcome[1].returned = [type |-> "skip"]

\* C34: one executeCheck() call runs the body of the cycle at most once: it draws its
\* selections once, acquires at most one session and makes at most one login attempt,
\* and once its failure was classified it only releases the session and returns,
\* whether the action prescribed is Retry, Fallback or Skip.
C34_BodyRunsOnce ==
  \A p \in Procs :
    LET log == cycleLog[p]
    IN  /\ Count(log, "select") <= 1
        /\ Count(log, "createSession") <= 1
        /\ Count(log, "sessionCreated") <= 1
        /\ Count(log, "login") <= 1
        /\ Count(log, "handleError") <= 1
        /\ \A i, j \in 1..Len(log) :
             (log[i] = "handleError" /\ i < j) => log[j] \in {"markProxyFailed", "closeSession"}

\* C34 witness: a call has returned whose only login attempt failed with a failure
\* for which the handler prescribes Retry.
C34_Witness ==
  \E p \in Procs :
    /\ pc[p] = "returned"
    /\ Count(cycleLog[p], "login") = 1
    /\ "raised" \in Range(cycleLog[p])
    /\ handleError(ErrorOf(RaisedIn(cycleLog[p])), CycleContext).type = "retry"

\* C35 (as claimed): at most one timer of the Scheduler is pending at any time,
\* whatever start(), stop() and executeCheck() calls and timer firings came before.
C35_AtMostOneTimerPending == Cardinality({t \in Timers : pc[t] = "pending"}) <= 1

\* C36: an executeCheck() call that the guard rejects changes nothing of the
\* Scheduler: the flag stays set, no cursor of a pool moves, the excluded set, the
\* stopped flag, the timer handle and the other timers stay as they were, the cycle
\* under way stays where it was, and the call acquires no session.
C36_RejectedCallChangesNothing ==
  [][\A p \in Procs :
       (Invokes(p) /\ checkInProgress) =>
         /\ checkInProgress'
         /\ UNCHANGED <<browserIndex, userAgentIndex, proxyIndex, failedProxies>>
         /\ UNCHANGED <<timerId, stopped>>
         /\ \A q \in Procs \ {p} :
              /\ pc'[q] = pc[q]
              /\ frame'[q] = frame[q]
              /\ cycleLog'[q] = cycleLog[q]
         /\ \A t \in Timers \ {p} : timerDelay'[t] = timerDelay[t]
         /\ pc'[p] = "returned"
         /\ result'[p] = Some([success |-> FALSE, timestamp |-> clock,
                               error |-> AlreadyInProgress])
         /\ frame'[p] = EmptyFrame
         /\ cycleLog'[p] = <<>>]_vars

\* C36 witness: a manual call was rejected while the cycle of a timer callback holds
\* a session, with a proxy selected and the cursors moved by that cycle alone.
C36_Witness ==
  \E c \in Callers, t \in Timers :
    /\ pc[c] = "returned"
    /\ result[c] /= Null
    /\ result[c][1].error = AlreadyInProgress
    /\ checkInProgress
    /\ frame[t].session /= Null
    /\ frame[t].proxy /= Null
    /\ browserIndex = 1
    /\ proxyIndex = 1

\* Every configured route of the Scheduler's ProxyRotator is excluded.
AllRoutesExcluded ==
  /\ proxyRotator
  /\ \A i \in 1..Len(ProxyServers) : getProxyKey(ProxyServers[i]) \in failedProxies

OpenSessions == {p \in Procs : frame[p].session /= Null}

\* C38: at most one session is open at any time, whatever the interleaving of manual
\* executeCheck() calls and timer firings.
C38_AtMostOneSessionOpen == Cardinality(OpenSessions) <= 1

\* C38 witness: a manual cycle that is not the first holds a session while a timer is
\* pending.
C38_Witness ==
  \E c \in Callers, t \in Timers :
    /\ OpenSessions = {c}
    /\ frame[c].browserType = Browsers[2]
    /\ pc[t] = "pending"

\* C39: when every collaborator call settles, every executeCheck() call that passed
\* the guard returns a result, and the flag it set becomes false again.
C39_CycleTerminates ==
  /\ \A p \in Procs : InCycle(p) ~> (pc[p] = "returned" /\ result[p] /= Null)
  /\ checkInProgress ~> ~checkInProgress

\* C39 witness: a cycle whose delivery took every attempt and every sleep between
\* them has returned, and the flag is clear.
C39_Witness ==
  \E p \in Procs :
    /\ pc[p] = "returned"
    /\ Count(cycleLog[p], "sleep") = 2
    /\ "sendThrows" \in Range(cycleLog[p])
    /\ result[p] /= Null
    /\ ~checkInProgress

\* C40: a getNextProxy() call that returns null leaves the cursor where it was, and
\* resetFailures() leaves it there too, so the first call after resetFailures()
\* returns the item the cursor stood on before the pool was exhausted.
C40_NullKeepsCursor ==
  [][/\ (GetNextProxy /\ outcome' = Some(Null)) => proxyIndex' = proxyIndex
     /\ ResetFailures => proxyIndex' = proxyIndex
     /\ (GetNextProxy /\ Len(items) > 0 /\ marked = {}) =>
          outcome' = Some(Some(items[proxyIndex + 1]))]_vars

\* C40 witness: with the cursor on the second of two items and both excluded, two
\* calls in a row have returned null and the cursor is still on the second item.
C40_Witness ==
  /\ kind = "proxy"
  /\ Len(items) = 2
  /\ items[1] /= items[2]
  /\ \A i \in 1..2 : getProxyKey(items[i]) \in failedProxies
  /\ calls = 3
  /\ outcome = Some(Null)
  /\ proxyIndex = 1

\* C12 witness: the cycle of a timer callback has returned a failure classified
\* Configuration, for which the action is Fatal, the Scheduler is not stopped, and
\* the callback is about to go on.
C12_Witness ==
  \E t \in Timers :
    /\ pc[t] = "returned"
    /\ ~stopped
    /\ result[t][1].error = "E_CONFIG"
    /\ handleError(ErrorOf("E_CONFIG"), [attempt |-> 1, maxAttempts |-> 3]).type = "fatal"
    /\ ENABLED TimerContinues(t)
====
